---------------------------- MODULE Spec2Model ----------------------------
(***************************************************************************)
(* A model of general_alerts.py (with utils.Logerror): the rolling         *)
(* statistics functions and the MAIN script that parses the configuration  *)
(* file, fetches the overview series and the series of every configured    *)
(* ltla area, and logs alerts.                                             *)
(*                                                                         *)
(* Text is modelled character by character: a string is a sequence of      *)
(* one-character strings, so str.split, len, int and float are computed    *)
(* and not assumed.  Python indices are zero-based; At(s, i) is s[i].      *)
(* Floats that hold counts are modelled by the integers they are equal to; *)
(* quotients are modelled as exact fractions <<numerator, denominator>>;   *)
(* math.log is modelled in fixed point (thousandths).                      *)
(***************************************************************************)
EXTENDS Integers, Sequences, FiniteSets, TLC

VARIABLES
    pc,          \* the statement of MAIN that runs next (or the function stage)
    outcome,     \* "running", "completed", "exit" (sys.exit) or an uncaught exception
    logfile,     \* whether log.txt could be opened: "open" or "failed"
    config,      \* the configuration file: [exists, lines]
    areas,       \* MAIN's areas
    Rolling,     \* MAIN's Rolling
    limits,      \* MAIN's eleven limit parameters
    table,       \* the rows the data source holds for the current request
    data_lines,  \* MAIN's data_lines
    data_lists,  \* MAIN's data_lists
    area_number, \* MAIN's area_number
    sink,        \* the entries written to log.txt so far, oldest first
    console,     \* the entries printed to the console so far, oldest first
    fetches,     \* the calls of RetreiveCOVIDData so far, oldest first
    result       \* the value or exception of the last function applied

vars == <<pc, outcome, logfile, config, areas, Rolling, limits, table,
          data_lines, data_lists, area_number, sink, console, fetches, result>>

(***************************************************************************)
(* Text                                                                    *)
(***************************************************************************)
At(s, i) == s[i + 1]

DigitChars == <<"0", "1", "2", "3", "4", "5", "6", "7", "8", "9">>

IsDigit(c) == \E i \in 1..10 : DigitChars[i] = c

DigitValue(c) == (CHOOSE i \in 1..10 : DigitChars[i] = c) - 1

\* str(n) for n >= 0: how the data source and the configuration's author write a number
RECURSIVE Digits(_)
Digits(n) ==
    IF n < 10 THEN <<DigitChars[n + 1]>>
    ELSE Digits(n \div 10) \o <<DigitChars[(n % 10) + 1]>>

IsDigits(text) == Len(text) > 0 /\ \A i \in 1..Len(text) : IsDigit(text[i])

RECURSIVE DigitsValue(_)
DigitsValue(text) ==
    IF Len(text) = 0 THEN 0
    ELSE 10 * DigitsValue(SubSeq(text, 1, Len(text) - 1)) + DigitValue(text[Len(text)])

\* str.split(sep): always at least one field; an empty text gives one empty field
RECURSIVE Split(_, _)
Split(text, sep) ==
    IF \A i \in 1..Len(text) : text[i] /= sep THEN <<text>>
    ELSE LET p == CHOOSE i \in 1..Len(text) :
                      text[i] = sep /\ \A j \in 1..(i - 1) : text[j] /= sep
         IN  <<SubSeq(text, 1, p - 1)>> \o Split(SubSeq(text, p + 1, Len(text)), sep)

\* sep.join(fields): how a csv line is written
RECURSIVE Join(_, _)
Join(fields, sep) ==
    IF Len(fields) = 0 THEN <<>>
    ELSE IF Len(fields) = 1 THEN fields[1]
    ELSE fields[1] \o <<sep>> \o Join(Tail(fields), sep)

\* str.replace(old, '') for a one-character old
RECURSIVE Remove(_, _)
Remove(text, old) ==
    IF Len(text) = 0 THEN <<>>
    ELSE (IF text[1] = old THEN <<>> ELSE <<text[1]>>) \o Remove(Tail(text), old)

Contains(text, c) == \E i \in 1..Len(text) : text[i] = c

\* float(text) of a count field: the fields of the data source are digit strings
\* or empty; anything else in the model's alphabet (an empty field, a date) raises
\* ValueError, as in Python.
FloatRaises(text) == ~IsDigits(text)

Float(text) == DigitsValue(text)

\* The first exception of a sequence of evaluations, in evaluation order
RECURSIVE FirstExc(_)
FirstExc(excs) ==
    IF Len(excs) = 0 THEN "none"
    ELSE IF excs[1] /= "none" THEN excs[1]
    ELSE FirstExc(Tail(excs))

\* float(row[position]): IndexError, ValueError or none
FieldExc(row, position) ==
    IF position >= Len(row) THEN "IndexError"
    ELSE IF FloatRaises(At(row, position)) THEN "ValueError"
    ELSE "none"

(***************************************************************************)
(* Field positions                                                         *)
(***************************************************************************)
overview_structure == <<"Date", "Cases", "PillarOneTests", "PillarTwoTests", "Deaths", "New">>

area_structure == <<"Date", "Cases", "New">>

death_structure == <<"Date", "Cases">>

ReturnFieldPostions(structure) ==
    [field \in {structure[i] : i \in 1..Len(structure)} |->
        (CHOOSE i \in 1..Len(structure) : structure[i] = field) - 1]

overview_field_positions == ReturnFieldPostions(overview_structure)

area_field_positions == ReturnFieldPostions(area_structure)

death_field_positions == ReturnFieldPostions(death_structure)

(***************************************************************************)
(* Series windowing and rolling arithmetic                                 *)
(***************************************************************************)
\* data[rolling*2] is evaluated first: with rolling > 0 it is the only index that
\* can be out of range
ReturnRollingSourceDataExc(data, rolling) ==
    IF rolling * 2 >= Len(data) THEN "IndexError" ELSE "none"

\* A variant that samples three successive lines
ReturnRollingSourceDataMutAdjacent(data, rolling) ==
    <<Split(At(data, 2), ","), Split(At(data, 1), ","), Split(At(data, 0), ",")>>

\* A variant that keeps the newest-first order of the series
ReturnRollingSourceDataMutOrder(data, rolling) ==
    <<Split(At(data, 0), ","), Split(At(data, rolling), ","),
      Split(At(data, rolling * 2), ",")>>

ReturnRollingSourceData(data, rolling) ==
    <<Split(At(data, rolling * 2), ","), Split(At(data, rolling), ","),
      Split(At(data, 0), ",")>>

ReturnRollingDifferenceExc(lists, position) ==
    FirstExc(<<FieldExc(At(lists, 2), position), FieldExc(At(lists, 1), position),
               FieldExc(At(lists, 0), position)>>)

\* A variant that subtracts the oldest sample
ReturnRollingDifferenceMutSign(lists, position) ==
    Float(At(At(lists, 2), position)) - (2 * Float(At(At(lists, 1), position)))
        - Float(At(At(lists, 0), position))

ReturnRollingDifference(lists, position) ==
    Float(At(At(lists, 2), position)) - (2 * Float(At(At(lists, 1), position)))
        + Float(At(At(lists, 0), position))

\* len(...) of both fields is taken before either float(...); the second len(...)
\* is not evaluated when the first field is empty
ReturnLastRollingValueExc(lists, position) ==
    IF position >= Len(At(lists, 2)) THEN "IndexError"
    ELSE IF Len(At(At(lists, 2), position)) = 0 THEN "none"
    ELSE IF position >= Len(At(lists, 1)) THEN "IndexError"
    ELSE IF Len(At(At(lists, 1), position)) = 0 THEN "none"
    ELSE FirstExc(<<FieldExc(At(lists, 2), position), FieldExc(At(lists, 1), position)>>)

\* A variant without the test of the fields' lengths: an empty field counts as 0
ReturnLastRollingValueMutNoGuard(lists, position) ==
    Float(At(At(lists, 2), position)) - Float(At(At(lists, 1), position))

ReturnLastRollingValue(lists, position) ==
    IF Len(At(At(lists, 2), position)) /= 0 /\ Len(At(At(lists, 1), position)) /= 0
    THEN Float(At(At(lists, 2), position)) - Float(At(At(lists, 1), position))
    ELSE 0

ReturnPenultimateRollingValueExc(lists, position) ==
    IF position >= Len(At(lists, 1)) THEN "IndexError"
    ELSE IF Len(At(At(lists, 1), position)) = 0 THEN "none"
    ELSE IF position >= Len(At(lists, 0)) THEN "IndexError"
    ELSE IF Len(At(At(lists, 0), position)) = 0 THEN "none"
    ELSE FirstExc(<<FieldExc(At(lists, 1), position), FieldExc(At(lists, 0), position)>>)

ReturnPenultimateRollingValue(lists, position) ==
    IF Len(At(At(lists, 1), position)) /= 0 /\ Len(At(At(lists, 0), position)) /= 0
    THEN Float(At(At(lists, 1), position)) - Float(At(At(lists, 0), position))
    ELSE 0

(***************************************************************************)
(* Fractions: a quotient of two numbers is the pair <<numerator,            *)
(* denominator>> with a positive denominator                               *)
(***************************************************************************)
Frac(n, d) == IF d < 0 THEN <<0 - n, 0 - d>> ELSE <<n, d>>

FracLess(a, b) == a[1] * b[2] < b[1] * a[2]

FracSub(a, b) == <<(a[1] * b[2]) - (b[1] * a[2]), a[2] * b[2]>>

FracEq(a, b) == a[1] * b[2] = b[1] * a[2]

(***************************************************************************)
(* Positive test rates                                                     *)
(***************************************************************************)
LastTests(lists, test1, test2) ==
    ReturnLastRollingValue(lists, test1) + ReturnLastRollingValue(lists, test2)

PenultimateTests(lists, test1, test2) ==
    ReturnPenultimateRollingValue(lists, test1) + ReturnPenultimateRollingValue(lists, test2)

\* The four rolling values are computed first, then last_rate, then penultimate_rate
ReturnRollingPositiveRatesExc(lists, cases, test1, test2) ==
    LET values == FirstExc(<<ReturnLastRollingValueExc(lists, cases),
                             ReturnPenultimateRollingValueExc(lists, cases),
                             ReturnLastRollingValueExc(lists, test1),
                             ReturnLastRollingValueExc(lists, test2),
                             ReturnPenultimateRollingValueExc(lists, test1),
                             ReturnPenultimateRollingValueExc(lists, test2)>>)
    IN  IF values /= "none" THEN values
        ELSE IF LastTests(lists, test1, test2) = 0 THEN "ZeroDivisionError"
        ELSE IF PenultimateTests(lists, test1, test2) = 0 THEN "ZeroDivisionError"
        ELSE "none"

\* A variant that returns the latest rate first
ReturnRollingPositiveRatesMutOrder(lists, cases, test1, test2) ==
    <<Frac(ReturnLastRollingValue(lists, cases) * 100,
           LastTests(lists, test1, test2)),
      Frac(ReturnPenultimateRollingValue(lists, cases) * 100,
           PenultimateTests(lists, test1, test2))>>

\* [penultimate_rate, last_rate]
ReturnRollingPositiveRates(lists, cases, test1, test2) ==
    <<Frac(ReturnPenultimateRollingValue(lists, cases) * 100,
           PenultimateTests(lists, test1, test2)),
      Frac(ReturnLastRollingValue(lists, cases) * 100,
           LastTests(lists, test1, test2))>>

(***************************************************************************)
(* Rolling averages and the exponential growth test                        *)
(***************************************************************************)
\* int(text) of a count field
IntRaises(text) == ~IsDigits(text)

IntExc(row, position) ==
    IF position >= Len(row) THEN "IndexError"
    ELSE IF IntRaises(At(row, position)) THEN "ValueError"
    ELSE "none"

\* range(first, stop, -1) as a sequence
RECURSIVE RangeDown(_, _)
RangeDown(first, stop) ==
    IF first <= stop THEN <<>> ELSE <<first>> \o RangeDown(first - 1, stop)

RECURSIVE SumInts(_)
SumInts(s) == IF Len(s) = 0 THEN 0 ELSE s[1] + SumInts(Tail(s))

\* The points summed for the centre row index: index+3 down to index-3
Points(index) == RangeDown(index + 3, index - 4)

\* What evaluating the body of the loop for one index raises
AverageExc(rows, index, value, date) ==
    IF date >= Len(At(rows, index)) THEN "IndexError"
    ELSE IF index > 2
         THEN FirstExc([k \in 1..7 |->
                  IF Points(index)[k] >= Len(rows) THEN "IndexError"
                  ELSE IntExc(At(rows, Points(index)[k]), value)])
         ELSE "none"

Return7DayRollingAverageDataExc(lines, value, date) ==
    LET rows    == [i \in 1..Len(lines) |-> Split(lines[i], ",")]
        indexes == RangeDown(Len(lines) - 4, 0)
    IN  FirstExc([k \in 1..Len(indexes) |-> AverageExc(rows, indexes[k], value, date)])

\* A variant whose newest centre index is 4
Return7DayRollingAverageDataMutRange(lines, value, date) ==
    LET rows    == [i \in 1..Len(lines) |-> Split(lines[i], ",")]
        indexes == RangeDown(Len(lines) - 4, 3)
    IN  [k \in 1..Len(indexes) |->
            <<At(At(rows, indexes[k]), date),
              Frac(SumInts([p \in 1..7 |->
                       DigitsValue(At(At(rows, Points(indexes[k])[p]), value))]), 7)>>]

\* A variant that pairs each average with the date of the newest row it sums
Return7DayRollingAverageDataMutDate(lines, value, date) ==
    LET rows    == [i \in 1..Len(lines) |-> Split(lines[i], ",")]
        indexes == RangeDown(Len(lines) - 4, 2)
    IN  [k \in 1..Len(indexes) |->
            <<At(At(rows, indexes[k] - 3), date),
              Frac(SumInts([p \in 1..7 |->
                       DigitsValue(At(At(rows, Points(indexes[k])[p]), value))]), 7)>>]

\* [sample_date, average] for every centre index from len-4 down to 3
Return7DayRollingAverageData(lines, value, date) ==
    LET rows    == [i \in 1..Len(lines) |-> Split(lines[i], ",")]
        indexes == RangeDown(Len(lines) - 4, 2)
    IN  [k \in 1..Len(indexes) |->
            <<At(At(rows, indexes[k]), date),
              Frac(SumInts([p \in 1..7 |->
                       DigitsValue(At(At(rows, Points(indexes[k])[p]), value))]), 7)>>]

\* math.log in thousandths, for the arguments 1..120
LnMilli ==
    <<0, 693, 1099, 1386, 1609, 1792, 1946, 2079, 2197, 2303, 2398, 2485, 2565, 2639,
      2708, 2773, 2833, 2890, 2944, 2996, 3045, 3091, 3135, 3178, 3219, 3258, 3296,
      3332, 3367, 3401, 3434, 3466, 3497, 3526, 3555, 3584, 3611, 3638, 3664, 3689,
      3714, 3738, 3761, 3784, 3807, 3829, 3850, 3871, 3892, 3912, 3932, 3951, 3970,
      3989, 4007, 4025, 4043, 4060, 4078, 4094, 4111, 4127, 4143, 4159, 4174, 4190,
      4205, 4220, 4234, 4248, 4263, 4277, 4290, 4304, 4317, 4331, 4344, 4357, 4369,
      4382, 4394, 4407, 4419, 4431, 4443, 4454, 4466, 4477, 4489, 4500, 4511, 4522,
      4533, 4543, 4554, 4564, 4575, 4585, 4595, 4605, 4615, 4625, 4635, 4644, 4654,
      4663, 4673, 4682, 4691, 4700, 4710, 4718, 4727, 4736, 4745, 4754, 4762, 4771,
      4779, 4787>>

\* math.log(n/d) of a positive fraction
Log(value) == LnMilli[value[1]] - LnMilli[value[2]]

\* data[index] for index in range(0, rolling): the first index out of range raises
ReturnExponentialDataExc(data, rolling, position) ==
    IF rolling > Len(data) THEN "IndexError" ELSE "none"

\* With rolling = 0 the code reads 'value' before it is set; MAIN calls it with 7
ReturnExponentialData(data, rolling, position) ==
    LET values == [i \in 1..rolling |-> At(data[i], position)]
    IN  [Increasing   |-> FracLess(values[1], values[rolling]),
         Exponentials |-> LET positive == SelectSeq(values, LAMBDA v : v[1] > 0)
                          IN  [i \in 1..Len(positive) |-> Log(positive[i])]]

Increments(logs) ==
    IF Len(logs) = 0 THEN <<>> ELSE [i \in 1..(Len(logs) - 1) |-> logs[i + 1] - logs[i]]

\* n/d for d > 0 as the arithmetic of the code yields it: the representable number
\* nearest to the quotient, the even one of two that are equally near.  The numbers
\* the code can represent are floats; here they are the thousandths of LnMilli.
RoundedQuotient(n, d) ==
    LET q == n \div d
        r == n % d
    IN  IF 2 * r < d THEN q
        ELSE IF 2 * r > d THEN q + 1
        ELSE IF q % 2 = 0 THEN q ELSE q + 1

\* Lines 329-332: average = sum(increments)/float(len(increments)), 0 when there
\* is no increment
Average(increments) ==
    IF Len(increments) > 0 THEN RoundedQuotient(SumInts(increments), Len(increments))
    ELSE 0

\* Lines 335-337: increment > average and increment < average
AboveAverage(increments) ==
    Cardinality({i \in 1..Len(increments) : increments[i] > Average(increments)})

BelowAverage(increments) ==
    Cardinality({i \in 1..Len(increments) : increments[i] < Average(increments)})

Abs(x) == IF x < 0 THEN 0 - x ELSE x

\* A variant that sets Exponential only below the limit
IsGrowthExponentialMutStrict(logs, limit) ==
    LET increments == Increments(logs)
        above      == AboveAverage(increments)
        below      == BelowAverage(increments)
    IN  [Above |-> above, Below |-> below, Exponential |-> Abs(above - below) < limit]

\* Lines 341-343: Exponential is set when abs(Above - Below) <= limit
IsGrowthExponential(logs, limit) ==
    LET increments == Increments(logs)
        above      == AboveAverage(increments)
        below      == BelowAverage(increments)
    IN  [Above |-> above, Below |-> below, Exponential |-> Abs(above - below) <= limit]

\* bool(derived) of the dictionary IsGrowthExponential returns: a dictionary with
\* keys is true whatever its values are
Truthy(derived) == DOMAIN derived /= {}

(***************************************************************************)
(* utils.Logerror                                                          *)
(***************************************************************************)
\* A log message: its level, what it says (kind), the area it is about (-1: the
\* UK or no area, else the area's index in areas) and the metric
Entry(level, kind, area, metric) ==
    [level |-> level, kind |-> kind, area |-> area, metric |-> metric]

\* A variant of Logerror that exits on level WARNING as well
LogerrorMutExitOnWarning(log, entry) ==
    IF log.exit THEN log
    ELSE IF log.file /= "open"
         THEN [log EXCEPT !.console = Append(@, Entry("", "unable_to_log", -1, "")),
                          !.exit = TRUE]
    ELSE [log EXCEPT !.sink = Append(@, entry),
                     !.console = IF entry.level /= "LOG" THEN Append(@, entry) ELSE @,
                     !.exit = (entry.level \in {"ERROR", "WARNING"})]

\* A variant of Logerror that does not exit on level ERROR
LogerrorMutNoExit(log, entry) ==
    IF log.exit THEN log
    ELSE IF log.file /= "open"
         THEN [log EXCEPT !.console = Append(@, Entry("", "unable_to_log", -1, "")),
                          !.exit = TRUE]
    ELSE [log EXCEPT !.sink = Append(@, entry),
                     !.console = IF entry.level /= "LOG" THEN Append(@, entry) ELSE @]

\* Logerror on the output so far, log = [sink, console, exit, file]: writelines
\* raises when the log file is not an open file; then the message is not recorded,
\* 'Unable to log' is printed and the process exits.  A call after the process has
\* exited does not happen.
Logerror(log, entry) ==
    IF log.exit THEN log
    ELSE IF log.file /= "open"
         THEN [log EXCEPT !.console = Append(@, Entry("", "unable_to_log", -1, "")),
                          !.exit = TRUE]
    ELSE [log EXCEPT !.sink = Append(@, entry),
                     !.console = IF entry.level /= "LOG" THEN Append(@, entry) ELSE @,
                     !.exit = (entry.level = "ERROR")]

\* Successive calls of Logerror
RECURSIVE LogAll(_, _)
LogAll(log, entries) ==
    IF Len(entries) = 0 THEN log
    ELSE LogAll(Logerror(log, entries[1]), Tail(entries))

\* A sequence of at most one entry: the entry when the condition holds
When(condition, entry) == IF condition THEN <<entry>> ELSE <<>>

(***************************************************************************)
(* The configuration file (MAIN, lines 479-545)                            *)
(***************************************************************************)
ConfigFileLength == 2

MinAreas == 1

NoOfparameters == 12

\* re.match("^\d*\.?\d*$", parameter)
IsNumericText(text) ==
    /\ \A i \in 1..Len(text) : IsDigit(text[i]) \/ text[i] = "."
    /\ Cardinality({i \in 1..Len(text) : text[i] = "."}) <= 1

\* int(parameter) of a text that passed the numeric test: a point raises ValueError
ParameterIntRaises(text) == ~IsDigits(text)

\* float(parameter) of a text that passed the numeric test: only "." raises
ParameterFloatRaises(text) == \A i \in 1..Len(text) : ~IsDigit(text[i])

\* float(parameter) as a fraction: the digits without the point over 10^(decimals)
RECURSIVE Pow10(_)
Pow10(n) == IF n = 0 THEN 1 ELSE 10 * Pow10(n - 1)

ParameterFloat(text) ==
    LET point == IF Contains(text, ".")
                 THEN CHOOSE i \in 1..Len(text) : text[i] = "."
                 ELSE Len(text) + 1
    IN  <<DigitsValue(Remove(text, ".")), Pow10(IF point > Len(text) THEN 0 ELSE Len(text) - point)>>

NoLimits ==
    [RollingCasesIncreaseLimit |-> 0, RollingCasesLimit |-> 0,
     RollingDeathsIncreaseLimit |-> 0, RollingDeathsLimit |-> 0,
     RollingPositiveRateIncreaseLimit |-> <<0, 1>>, RollingPositiveRateLimit |-> <<0, 1>>,
     LTLARollingCasesIncreaseLimit |-> 0, LTLARollingCasesLimit |-> 0,
     LTLARollingDeathsIncreaseLimit |-> 0, LTLARollingDeathsLimit |-> 0,
     ExponentialSensitivity |-> 0]

\* A variant that lets a rolling period of 0 pass
RollingStopMutNegative(rolling) == rolling < 0

\* Line 527: if ( Rolling <= 0 )
RollingStop(rolling) == rolling <= 0

\* The first thing that stops the parse of the configuration, in the order of the
\* code, or "none": an error message logged with level ERROR (Logerror then exits),
\* or an uncaught ValueError of int(...) or float(...)
ConfigurationStop(file) ==
    IF ~file.exists THEN "no_configuration_file"
    ELSE IF Len(file.lines) = 0 THEN "no_data"
    ELSE IF Len(file.lines) < ConfigFileLength THEN "too_few_lines"
    ELSE LET line1      == At(file.lines, 0)
             line2      == At(file.lines, 1)
             names      == Split(line1, ",")
             parameters == Split(Remove(line2, " "), ",")
         IN  IF Len(names) < MinAreas \/ ~Contains(line1, ",") THEN "too_few_areas"
             ELSE IF \E i \in 1..Len(names) : Len(Remove(names[i], " ")) = 0
                  THEN "empty_area_name"
             ELSE IF Len(parameters) /= NoOfparameters \/ ~Contains(line2, ",")
                  THEN "parameter_count"
             ELSE IF \E i \in 1..Len(parameters) :
                        /\ Len(parameters[i]) = 0 \/ ~IsNumericText(parameters[i])
                        /\ \A j \in 1..(i - 1) :
                              Len(parameters[j]) /= 0 /\ IsNumericText(parameters[j])
                        /\ Len(parameters[i]) = 0
                  THEN "empty_parameter"
             ELSE IF \E i \in 1..Len(parameters) : ~IsNumericText(parameters[i])
                  THEN "non_numeric_parameter"
             ELSE IF ParameterIntRaises(At(parameters, 0)) THEN "ValueError"
             ELSE IF RollingStop(DigitsValue(At(parameters, 0))) THEN "zero_rolling"
             ELSE IF \E i \in {1, 2, 3, 4, 7, 8, 9, 10, 11} :
                        ParameterIntRaises(At(parameters, i))
                  THEN "ValueError"
             ELSE IF \E i \in {5, 6} : ParameterFloatRaises(At(parameters, i))
                  THEN "ValueError"
             ELSE "none"

ConfigurationAreas(file) == Split(At(file.lines, 0), ",")

ConfigurationRolling(file) ==
    DigitsValue(At(Split(Remove(At(file.lines, 1), " "), ","), 0))

ConfigurationLimits(file) ==
    LET parameters == Split(Remove(At(file.lines, 1), " "), ",")
    IN  [RollingCasesIncreaseLimit        |-> DigitsValue(At(parameters, 1)),
         RollingCasesLimit                |-> DigitsValue(At(parameters, 2)),
         RollingDeathsIncreaseLimit       |-> DigitsValue(At(parameters, 3)),
         RollingDeathsLimit               |-> DigitsValue(At(parameters, 4)),
         RollingPositiveRateIncreaseLimit |-> ParameterFloat(At(parameters, 5)),
         RollingPositiveRateLimit         |-> ParameterFloat(At(parameters, 6)),
         LTLARollingCasesIncreaseLimit    |-> DigitsValue(At(parameters, 7)),
         LTLARollingCasesLimit            |-> DigitsValue(At(parameters, 8)),
         LTLARollingDeathsIncreaseLimit   |-> DigitsValue(At(parameters, 9)),
         LTLARollingDeathsLimit           |-> DigitsValue(At(parameters, 10)),
         ExponentialSensitivity           |-> DigitsValue(At(parameters, 11))]

(***************************************************************************)
(* The data source: what api.get_csv() can answer                          *)
(***************************************************************************)
\* A date field; float(...) of it raises ValueError
DateField(day) == <<"d">> \o Digits(day)

\* A cumulative count on day k (0 is the oldest day of the series)
Cumulative(shape, k) ==
    CASE shape = "flat" -> 20
      [] shape = "lin"  -> 3 * k
      [] shape = "quad" -> k * k

\* A daily count on day k of a series of n days
Daily(shape, k, n) ==
    CASE shape = "const" -> 3
      [] shape = "up"    -> k + 1
      [] shape = "down"  -> n - k
      [] shape = "spike" -> IF k = n - 1 THEN 9 ELSE 1

\* A count field: empty when the value is not published
CountField(published, value) == IF published THEN Digits(value) ELSE <<>>

\* The overview rows, newest first.  s.nullDeaths and s.nullTests are the numbers
\* of newest rows without death and test data; s.hole names a field that is empty
\* in the row at index s.holeAt.
OverviewTable(s) ==
    [r \in 1..s.n |->
        LET i == r - 1
            k == s.n - r
        IN  <<DateField(k),
              CountField(~(s.hole = "Cases" /\ i = s.holeAt), Cumulative(s.cases, k)),
              CountField(i >= s.nullTests, 10 * Cumulative(s.tests, k)),
              CountField(i >= s.nullTests, 20 * Cumulative(s.tests, k)),
              CountField(i >= s.nullDeaths /\ ~(s.hole = "Deaths" /\ i = s.holeAt),
                         Cumulative(s.deaths, k)),
              CountField(~(s.hole = "New" /\ i = s.holeAt), Daily(s.new, k, s.n))>>]

AreaTable(s) ==
    [r \in 1..s.n |->
        LET i == r - 1
            k == s.n - r
        IN  <<DateField(k),
              CountField(~(s.hole = "Cases" /\ i = s.holeAt), Cumulative(s.cases, k)),
              CountField(~(s.hole = "New" /\ i = s.holeAt), Daily(s.new, k, s.n))>>]

DeathTable(s) ==
    [r \in 1..s.n |->
        LET i == r - 1
            k == s.n - r
        IN  <<DateField(k),
              CountField(~(s.hole = "Cases" /\ i = s.holeAt), Cumulative(s.cases, k))>>]

\* The csv text of a table as lines: a header line, then one line per row
HeaderLine == <<"h">>

CsvLines(rows) == <<HeaderLine>> \o [r \in 1..Len(rows) |-> Join(rows[r], ",")]

\* An answer of api.get_csv(): it raises (ok = FALSE) or returns text
Failure == [ok |-> FALSE, rows |-> <<>>, lines |-> <<>>]

EmptyText == [ok |-> TRUE, rows |-> <<>>, lines |-> <<>>]

Answer(rows) == [ok |-> TRUE, rows |-> rows, lines |-> CsvLines(rows)]

\* RetreiveCOVIDData: lines.pop(0) raises on a text without lines, and the bare
\* except takes that for a failed retrieve as well
RetreiveFails(answer) == ~answer.ok \/ Len(answer.lines) = 0

RetreiveCOVIDData(answer) == Tail(answer.lines)

\* Remove lines with null data: the number of leading lines whose field at
\* position is empty
RECURSIVE ValidDataStart(_, _)
ValidDataStart(lines, position) ==
    IF Len(lines) = 0 THEN 0
    ELSE IF Len(At(Split(lines[1], ","), position)) /= 0 THEN 0
    ELSE 1 + ValidDataStart(Tail(lines), position)

DeleteLeading(lines, count) == SubSeq(lines, count + 1, Len(lines))

\* data_lines[0:sample_size] with sample_size = (2*7)-1
RollingLines(lines) == SubSeq(lines, 1, IF Len(lines) < (2 * 7) - 1 THEN Len(lines) ELSE (2 * 7) - 1)

\* Lines 652-658 and 704-710: what the rolling average and exponential data raise
ExponentialExc(lines, value, date) ==
    LET averages == Return7DayRollingAverageDataExc(RollingLines(lines), value, date)
    IN  IF averages /= "none" THEN averages
        ELSE IF Len(Return7DayRollingAverageData(RollingLines(lines), value, date)) <= 3
             THEN "IndexError"
        ELSE ReturnExponentialDataExc(
                 Return7DayRollingAverageData(RollingLines(lines), value, date), 7, 1)

ExponentialData(lines, value, date) ==
    ReturnExponentialData(Return7DayRollingAverageData(RollingLines(lines), value, date), 7, 1)

\* Lines 660-661 and 712-713: the two nested conditions of the R number alert
ExponentialAlert(lines, value, date, sensitivity) ==
    /\ ExponentialData(lines, value, date).Increasing
    /\ Truthy(IsGrowthExponential(ExponentialData(lines, value, date).Exponentials,
                                  sensitivity))

(***************************************************************************)
(* MAIN: the alerts of each step, in the order they are logged             *)
(***************************************************************************)
\* A variant of the national cases alerts whose increase test is not strict
OverviewCasesAlertsMutNotStrict(lists, lim) ==
    LET position == overview_field_positions["Cases"]
    IN  When(ReturnRollingDifference(lists, position) >= lim.RollingCasesIncreaseLimit,
             Entry("WARNING", "increase", -1, "cases"))
        \o When(ReturnLastRollingValue(lists, position) > lim.RollingCasesLimit,
                Entry("WARNING", "absolute", -1, "cases"))
        \o When(ReturnLastRollingValue(lists, position) > lim.RollingCasesLimit,
                Entry("INFO", "daily_average", -1, "cases"))

\* Lines 593-606
OverviewCasesAlerts(lists, lim) ==
    LET position == overview_field_positions["Cases"]
    IN  When(ReturnRollingDifference(lists, position) > lim.RollingCasesIncreaseLimit,
             Entry("WARNING", "increase", -1, "cases"))
        \o When(ReturnLastRollingValue(lists, position) > lim.RollingCasesLimit,
                Entry("WARNING", "absolute", -1, "cases"))
        \o When(ReturnLastRollingValue(lists, position) > lim.RollingCasesLimit,
                Entry("INFO", "daily_average", -1, "cases"))

\* Lines 609-622
OverviewDeathsAlerts(lists, lim) ==
    LET position == overview_field_positions["Deaths"]
    IN  When(ReturnRollingDifference(lists, position) > lim.RollingDeathsIncreaseLimit,
             Entry("WARNING", "increase", -1, "deaths"))
        \o When(ReturnLastRollingValue(lists, position) > lim.RollingDeathsLimit,
                Entry("WARNING", "absolute", -1, "deaths"))
        \o When(ReturnLastRollingValue(lists, position) > lim.RollingDeathsLimit,
                Entry("WARNING", "daily_average", -1, "deaths"))

\* Lines 638-649
OverviewPositivesAlerts(lists, lim) ==
    LET rates == ReturnRollingPositiveRates(lists, overview_field_positions["Cases"],
                     overview_field_positions["PillarOneTests"],
                     overview_field_positions["PillarTwoTests"])
    IN  When(FracLess(lim.RollingPositiveRateIncreaseLimit, FracSub(At(rates, 1), At(rates, 0))),
             Entry("WARNING", "increase", -1, "positives"))
        \o When(FracLess(lim.RollingPositiveRateLimit, At(rates, 1)),
                Entry("WARNING", "absolute", -1, "positives"))

\* Lines 689-701
AreaCasesAlerts(lists, lim, area) ==
    LET position == area_field_positions["Cases"]
    IN  When(ReturnRollingDifference(lists, position) > lim.LTLARollingCasesIncreaseLimit,
             Entry("WARNING", "increase", area, "cases"))
        \o When(ReturnLastRollingValue(lists, position) > lim.LTLARollingCasesLimit,
                Entry("WARNING", "absolute", area, "cases"))
        \o When(ReturnLastRollingValue(lists, position) = 0,
                Entry("INFO", "zero", area, "cases"))

\* Lines 738-749: the message for a rolling value of 0 is built and not logged
AreaDeathsAlerts(lists, lim, area) ==
    LET position == death_field_positions["Cases"]
    IN  When(ReturnRollingDifference(lists, position) > lim.LTLARollingDeathsIncreaseLimit,
             Entry("WARNING", "increase", area, "deaths"))
        \o When(ReturnLastRollingValue(lists, position) > lim.LTLARollingDeathsLimit,
                Entry("WARNING", "absolute", area, "deaths"))

(***************************************************************************)
(* MAIN: the steps                                                         *)
(***************************************************************************)
Output == [sink |-> sink, console |-> console, exit |-> FALSE, file |-> logfile]

\* The end of a step that logged entries and then raised exc ("none": nothing):
\* sys.exit in Logerror or an uncaught exception ends the run where it is
Proceed(entries, exc, next) ==
    LET log == LogAll(Output, entries)
    IN  /\ sink' = log.sink
        /\ console' = log.console
        /\ outcome' = IF log.exit THEN "exit" ELSE IF exc /= "none" THEN exc ELSE outcome
        /\ pc' = IF log.exit \/ exc /= "none" THEN pc ELSE next

Call(area, structure) == [area |-> area, structure |-> structure]

\* Lines 467-477
Start ==
    /\ pc = "start" /\ outcome = "running"
    /\ Proceed(When(logfile /= "open", Entry("ERROR", "could_not_open_log", -1, ""))
               \o <<Entry("INFO", "started", -1, ""),
                    Entry("INFO", "reading_configuration", -1, "")>>,
               "none", "configuration")
    /\ UNCHANGED <<logfile, config, areas, Rolling, limits, table, data_lines,
                   data_lists, area_number, fetches, result>>

\* A variant that goes on to the sub-regions without the national processing
ConfigurationMutSkipOverview ==
    /\ pc = "configuration" /\ outcome = "running"
    /\ LET stop == ConfigurationStop(config)
       IN  IF stop = "none"
           THEN /\ areas' = ConfigurationAreas(config)
                /\ Rolling' = ConfigurationRolling(config)
                /\ limits' = ConfigurationLimits(config)
                /\ Proceed(<<Entry("INFO", "processing_overview", -1, "")>>, "none",
                           "area_fetch")
           ELSE /\ UNCHANGED <<areas, Rolling, limits>>
                /\ IF stop = "ValueError"
                   THEN Proceed(<<>>, stop, pc)
                   ELSE Proceed(<<Entry("ERROR", stop, -1, "")>>, "none", pc)
    /\ UNCHANGED <<logfile, config, table, data_lines, data_lists, area_number,
                   fetches, result>>

\* Lines 479-549
Configuration ==
    /\ pc = "configuration" /\ outcome = "running"
    /\ LET stop == ConfigurationStop(config)
       IN  IF stop = "none"
           THEN /\ areas' = ConfigurationAreas(config)
                /\ Rolling' = ConfigurationRolling(config)
                /\ limits' = ConfigurationLimits(config)
                /\ Proceed(<<Entry("INFO", "processing_overview", -1, "")>>, "none",
                           "overview_fetch")
           ELSE /\ UNCHANGED <<areas, Rolling, limits>>
                /\ IF stop = "ValueError"
                   THEN Proceed(<<>>, stop, pc)
                   ELSE Proceed(<<Entry("ERROR", stop, -1, "")>>, "none", pc)
    /\ UNCHANGED <<logfile, config, table, data_lines, data_lists, area_number,
                   fetches, result>>

\* RetreiveCOVIDData and what follows it up to the windowing: a failed retrieve is
\* logged with level ERROR; otherwise the leading lines without a value at the
\* position prune (-1: no pruning) are deleted, the first line is read when
\* readFirst, and the window is taken
Retrieved(answer, call, prune, readFirst, logged, next) ==
    /\ fetches' = Append(fetches, call)
    /\ IF RetreiveFails(answer)
       THEN /\ Proceed(<<Entry("ERROR", "retrieve_failed", call.area, call.structure)>>,
                       "none", pc)
            /\ UNCHANGED <<table, data_lines, data_lists>>
       ELSE LET lines == RetreiveCOVIDData(answer)
                kept  == IF prune < 0 THEN lines
                         ELSE DeleteLeading(lines, ValidDataStart(lines, prune))
                exc   == IF readFirst /\ Len(kept) = 0 THEN "IndexError"
                         ELSE ReturnRollingSourceDataExc(kept, Rolling)
            IN  /\ table' = answer.rows
                /\ data_lines' = kept
                /\ data_lists' = IF exc = "none"
                                 THEN ReturnRollingSourceData(kept, Rolling)
                                 ELSE data_lists
                /\ Proceed(IF readFirst /\ Len(kept) = 0 THEN <<>> ELSE logged, exc, next)

\* The alerts of one metric: ReturnRollingDifference raises before anything is logged
Alerted(position, entries, next) ==
    Proceed(IF ReturnRollingDifferenceExc(data_lists, position) = "none" THEN entries ELSE <<>>,
            FirstExc(<<ReturnRollingDifferenceExc(data_lists, position),
                       ReturnLastRollingValueExc(data_lists, position)>>),
            next)

\* Lines 574-590
OverviewFetch(answer) ==
    /\ pc = "overview_fetch" /\ outcome = "running"
    /\ Retrieved(answer, Call(-1, "overview"), overview_field_positions["Deaths"], FALSE,
                 <<>>, "overview_cases")
    /\ UNCHANGED <<logfile, config, areas, Rolling, limits, area_number, result>>

\* Lines 592-606
OverviewCases ==
    /\ pc = "overview_cases" /\ outcome = "running"
    /\ Alerted(overview_field_positions["Cases"], OverviewCasesAlerts(data_lists, limits),
               "overview_deaths")
    /\ UNCHANGED <<logfile, config, areas, Rolling, limits, table, data_lines,
                   data_lists, area_number, fetches, result>>

\* Lines 608-622
OverviewDeaths ==
    /\ pc = "overview_deaths" /\ outcome = "running"
    /\ Alerted(overview_field_positions["Deaths"], OverviewDeathsAlerts(data_lists, limits),
               "overview_tests")
    /\ UNCHANGED <<logfile, config, areas, Rolling, limits, table, data_lines,
                   data_lists, area_number, fetches, result>>

\* Lines 624-635
OverviewTests ==
    /\ pc = "overview_tests" /\ outcome = "running"
    /\ LET kept == DeleteLeading(data_lines,
                       ValidDataStart(data_lines, overview_field_positions["PillarOneTests"]))
           exc  == ReturnRollingSourceDataExc(kept, Rolling)
       IN  /\ data_lines' = kept
           /\ data_lists' = IF exc = "none" THEN ReturnRollingSourceData(kept, Rolling)
                            ELSE data_lists
           /\ Proceed(<<>>, exc, "overview_positives")
    /\ UNCHANGED <<logfile, config, areas, Rolling, limits, table, area_number,
                   fetches, result>>

\* Lines 637-649
OverviewPositives ==
    /\ pc = "overview_positives" /\ outcome = "running"
    /\ LET exc == ReturnRollingPositiveRatesExc(data_lists,
                      overview_field_positions["Cases"],
                      overview_field_positions["PillarOneTests"],
                      overview_field_positions["PillarTwoTests"])
       IN  Proceed(IF exc = "none" THEN OverviewPositivesAlerts(data_lists, limits) ELSE <<>>,
                   exc, "overview_exponential")
    /\ UNCHANGED <<logfile, config, areas, Rolling, limits, table, data_lines,
                   data_lists, area_number, fetches, result>>

\* Lines 651-674
OverviewExponential ==
    /\ pc = "overview_exponential" /\ outcome = "running"
    /\ LET value == overview_field_positions["New"]
           date  == overview_field_positions["Date"]
           exc   == ExponentialExc(data_lines, value, date)
       IN  Proceed(IF exc /= "none" THEN <<>>
                   ELSE When(ExponentialAlert(data_lines, value, date,
                                              limits.ExponentialSensitivity),
                             Entry("WARNING", "exponential", -1, "cases"))
                        \o <<Entry("INFO", "processing_ltla", -1, "")>>,
                   exc, "area_fetch")
    /\ area_number' = 0
    /\ UNCHANGED <<logfile, config, areas, Rolling, limits, table, data_lines,
                   data_lists, fetches, result>>

\* Lines 676-686
AreaFetch(answer) ==
    /\ pc = "area_fetch" /\ outcome = "running"
    /\ area_number < Len(areas)
    /\ Retrieved(answer, Call(area_number, "area"), -1, FALSE, <<>>, "area_cases")
    /\ UNCHANGED <<logfile, config, areas, Rolling, limits, area_number, result>>

\* Lines 688-701
AreaCases ==
    /\ pc = "area_cases" /\ outcome = "running"
    /\ Alerted(area_field_positions["Cases"],
               AreaCasesAlerts(data_lists, limits, area_number), "area_exponential")
    /\ UNCHANGED <<logfile, config, areas, Rolling, limits, table, data_lines,
                   data_lists, area_number, fetches, result>>

\* Lines 703-717
AreaExponential ==
    /\ pc = "area_exponential" /\ outcome = "running"
    /\ LET value == area_field_positions["New"]
           date  == area_field_positions["Date"]
           exc   == ExponentialExc(data_lines, value, date)
       IN  /\ Proceed(IF exc /= "none" THEN <<>>
                      ELSE When(ExponentialAlert(data_lines, value, date,
                                                 limits.ExponentialSensitivity),
                                Entry("WARNING", "exponential", area_number, "cases")),
                      exc, "area_fetch")
           /\ area_number' = IF exc = "none" THEN area_number + 1 ELSE area_number
    /\ UNCHANGED <<logfile, config, areas, Rolling, limits, table, data_lines,
                   data_lists, fetches, result>>

\* Lines 719-720: the loop over the areas' cases is over
AreaDone ==
    /\ pc = "area_fetch" /\ outcome = "running"
    /\ area_number >= Len(areas)
    /\ area_number' = 0
    /\ pc' = "death_fetch"
    /\ UNCHANGED <<outcome, logfile, config, areas, Rolling, limits, table, data_lines,
                   data_lists, sink, console, fetches, result>>

\* Lines 722-735
DeathFetch(answer) ==
    /\ pc = "death_fetch" /\ outcome = "running"
    /\ area_number < Len(areas)
    /\ Retrieved(answer, Call(area_number, "death"), -1, TRUE,
                 <<Entry("INFO", "total_deaths", area_number, "deaths")>>, "death_alerts")
    /\ UNCHANGED <<logfile, config, areas, Rolling, limits, area_number, result>>

\* Lines 737-751
DeathAlerts ==
    /\ pc = "death_alerts" /\ outcome = "running"
    /\ Alerted(death_field_positions["Cases"],
               AreaDeathsAlerts(data_lists, limits, area_number), "death_fetch")
    /\ area_number' =
           IF ReturnRollingDifferenceExc(data_lists, death_field_positions["Cases"]) = "none"
           THEN area_number + 1 ELSE area_number
    /\ UNCHANGED <<logfile, config, areas, Rolling, limits, table, data_lines,
                   data_lists, fetches, result>>

\* Lines 753-758
Finish ==
    /\ pc = "death_fetch" /\ outcome = "running"
    /\ area_number >= Len(areas)
    /\ LET log == Logerror(Output, Entry("INFO", "completed", -1, ""))
       IN  /\ sink' = log.sink
           /\ console' = log.console
           /\ outcome' = IF log.exit THEN "exit" ELSE "completed"
    /\ pc' = "done"
    /\ UNCHANGED <<logfile, config, areas, Rolling, limits, table, data_lines,
                   data_lists, area_number, fetches, result>>

(***************************************************************************)
(* The runs: configuration files and series the environment can supply     *)
(***************************************************************************)
AreaNames == <<"A">> \o <<",">> \o <<"B">>

\* "0.5", ".5" and "30." are all texts float(...) takes
Point(whole, decimals) == whole \o <<".">> \o decimals

Parameters1 ==
    Join(<<Digits(1), Digits(2), Digits(3), Digits(0), Digits(1),
           Point(Digits(0), Digits(5)), Digits(5),
           Digits(2), Digits(3), Digits(0), Digits(1), Digits(0)>>, ",")

Parameters2 ==
    Join(<<Digits(2), Digits(2), Digits(50), Digits(8), Digits(44),
           Point(<<>>, Digits(5)), Point(Digits(30), <<>>),
           Digits(2), Digits(50), <<" ">> \o Digits(8), Digits(12), Digits(4)>>, ",")

\* A rolling period longer than any series supplied
Parameters3 ==
    Join(<<Digits(7), Digits(2), Digits(3), Digits(0), Digits(1),
           Digits(1), Digits(5), Digits(2), Digits(3), Digits(0), Digits(1), Digits(0)>>, ",")

\* Parameters1 with the parameter at index i replaced by text
WithParameter(i, text) ==
    Join([Split(Parameters1, ",") EXCEPT ![i + 1] = text], ",")

File(lines) == [exists |-> TRUE, lines |-> lines]

ValidFiles ==
    {File(<<AreaNames, Parameters1>>), File(<<AreaNames, Parameters2>>)}

ConfigFiles ==
    ValidFiles \cup
    {[exists |-> FALSE, lines |-> <<>>],
     File(<<>>),
     File(<<AreaNames>>),
     File(<<AreaNames, Parameters3, <<>>>>),
     File(<<<<"A">>, Parameters1>>),
     File(<<<<"A", ",", " ">>, Parameters1>>),
     File(<<<<",", "B">>, Parameters1>>),
     File(<<AreaNames, Join(SubSeq(Split(Parameters1, ","), 1, 11), ",")>>),
     File(<<AreaNames, Parameters1 \o <<",">> \o Digits(3)>>),
     File(<<AreaNames, Digits(7)>>),
     File(<<AreaNames, WithParameter(2, <<>>)>>),
     File(<<AreaNames, WithParameter(2, <<"x">>)>>),
     File(<<AreaNames, WithParameter(3, <<"-", "1">>)>>),
     File(<<AreaNames, WithParameter(4, Point(Digits(1), <<>>) \o Point(<<>>, Digits(1)))>>),
     File(<<AreaNames, WithParameter(0, Digits(0))>>),
     File(<<AreaNames, WithParameter(0, Point(Digits(1), Digits(5)))>>),
     File(<<AreaNames, WithParameter(8, Point(Digits(3), Digits(0)))>>),
     File(<<AreaNames, WithParameter(5, <<".">>)>>)}

OverviewScenarios ==
    {[n |-> 13, cases |-> c, deaths |-> d, tests |-> "lin", new |-> w,
      nullDeaths |-> 0, nullTests |-> 0, hole |-> "none", holeAt |-> 0] :
        c \in {"lin", "quad"}, d \in {"flat", "quad"}, w \in {"up", "spike", "down"}}
    \cup
    {[n |-> n, cases |-> "quad", deaths |-> "lin", tests |-> t, new |-> "const",
      nullDeaths |-> nd, nullTests |-> nt, hole |-> "none", holeAt |-> 0] :
        n \in {0, 4, 13, 14}, t \in {"flat", "quad"}, nd \in {0, 1}, nt \in {0, 1, 14}}
    \cup
    {[n |-> 13, cases |-> "lin", deaths |-> "lin", tests |-> "lin", new |-> "up",
      nullDeaths |-> 0, nullTests |-> 0, hole |-> h, holeAt |-> at] :
        h \in {"Cases", "Deaths", "New"}, at \in {0, 2, 4}}

AreaScenarios ==
    {[n |-> 13, cases |-> c, new |-> w, hole |-> "none", holeAt |-> 0] :
        c \in {"flat", "quad"}, w \in {"up", "spike"}}
    \cup
    {[n |-> n, cases |-> "lin", new |-> "const", hole |-> h, holeAt |-> at] :
        n \in {2, 13}, h \in {"none", "Cases", "New"}, at \in {0, 2}}

DeathScenarios ==
    {[n |-> n, cases |-> c, hole |-> "none", holeAt |-> 0] :
        n \in {0, 2, 5}, c \in {"flat", "lin", "quad"}}
    \cup {[n |-> 5, cases |-> "quad", hole |-> "Cases", holeAt |-> at] : at \in {0, 2}}

OverviewAnswers == {Failure, EmptyText} \cup {Answer(OverviewTable(s)) : s \in OverviewScenarios}

AreaAnswers == {Failure} \cup {Answer(AreaTable(s)) : s \in AreaScenarios}

DeathAnswers == {Failure} \cup {Answer(DeathTable(s)) : s \in DeathScenarios}

NoResult == [fn |-> "none", position |-> 0, exc |-> "none", value |-> <<>>]

Init ==
    /\ pc = "start"
    /\ outcome = "running"
    /\ logfile \in {"open", "failed"}
    /\ config \in ConfigFiles
    /\ areas = <<>>
    /\ Rolling = 0
    /\ limits = NoLimits
    /\ table = <<>>
    /\ data_lines = <<>>
    /\ data_lists = <<>>
    /\ area_number = 0
    /\ sink = <<>>
    /\ console = <<>>
    /\ fetches = <<>>
    /\ result = NoResult

Next ==
    \/ Start
    \/ Configuration
    \/ \E answer \in OverviewAnswers : OverviewFetch(answer)
    \/ OverviewCases
    \/ OverviewDeaths
    \/ OverviewTests
    \/ OverviewPositives
    \/ OverviewExponential
    \/ \E answer \in AreaAnswers : AreaFetch(answer)
    \/ AreaCases
    \/ AreaExponential
    \/ AreaDone
    \/ \E answer \in DeathAnswers : DeathFetch(answer)
    \/ DeathAlerts
    \/ Finish

Spec == Init /\ [][Next]_vars

(***************************************************************************)
(* The functions on their own: a series of rows <<date, count>> whose count *)
(* fields are drawn from FnFields, windowed with every period up to        *)
(* MaxRolling, then one rolling function applied at one field position     *)
(***************************************************************************)
MaxRows == 5

MaxRolling == 2

\* The counts a field of a series holds; a field is the text of one, or empty
FnCounts == {0, 7, 25}

FnFields == {<<>>} \cup {Digits(v) : v \in FnCounts}

FnTables ==
    UNION {{[r \in 1..n |-> <<DateField(n - r), counts[r]>>] : counts \in [1..n -> FnFields]} :
              n \in 0..MaxRows}

\* Two series of five days of a cumulative count, as rows newest first: one whose
\* counts grow with time, one whose counts are listed in the opposite order
SeriesTable(counts) ==
    [r \in 1..Len(counts) |-> <<DateField(Len(counts) - r), Digits(counts[r])>>]

GrowingSeries == <<210, 175, 145, 120, 100>>

ShrinkingSeries == <<100, 120, 145, 175, 210>>

FnSeriesTables == {SeriesTable(GrowingSeries), SeriesTable(ShrinkingSeries)}

FnPositions == {0, 1}

FnInit ==
    /\ pc = "fn"
    /\ outcome = "running"
    /\ logfile = "open"
    /\ config = [exists |-> FALSE, lines |-> <<>>]
    /\ areas = <<>>
    /\ Rolling \in 1..MaxRolling
    /\ limits = NoLimits
    /\ table \in FnTables \cup FnSeriesTables
    /\ data_lines = RetreiveCOVIDData(Answer(table))
    /\ data_lists = <<>>
    /\ area_number = 0
    /\ sink = <<>>
    /\ console = <<>>
    /\ fetches = <<>>
    /\ result = NoResult

FnWindow ==
    /\ pc = "fn"
    /\ LET exc == ReturnRollingSourceDataExc(data_lines, Rolling)
       IN  /\ result' = [fn |-> "ReturnRollingSourceData", position |-> 0, exc |-> exc,
                         value |-> IF exc = "none"
                                   THEN ReturnRollingSourceData(data_lines, Rolling)
                                   ELSE <<>>]
           /\ data_lists' = result'.value
           /\ pc' = IF exc = "none" THEN "fn_window" ELSE "fn_done"
    /\ UNCHANGED <<outcome, logfile, config, areas, Rolling, limits, table, data_lines,
                   area_number, sink, console, fetches>>

FnDifference(position) ==
    /\ pc = "fn_window"
    /\ LET exc == ReturnRollingDifferenceExc(data_lists, position)
       IN  result' = [fn |-> "ReturnRollingDifference", position |-> position, exc |-> exc,
                      value |-> IF exc = "none"
                                THEN ReturnRollingDifference(data_lists, position)
                                ELSE 0]
    /\ pc' = "fn_done"
    /\ UNCHANGED <<outcome, logfile, config, areas, Rolling, limits, table, data_lines,
                   data_lists, area_number, sink, console, fetches>>

FnLast(position) ==
    /\ pc = "fn_window"
    /\ LET exc == ReturnLastRollingValueExc(data_lists, position)
       IN  result' = [fn |-> "ReturnLastRollingValue", position |-> position, exc |-> exc,
                      value |-> IF exc = "none"
                                THEN ReturnLastRollingValue(data_lists, position)
                                ELSE 0]
    /\ pc' = "fn_done"
    /\ UNCHANGED <<outcome, logfile, config, areas, Rolling, limits, table, data_lines,
                   data_lists, area_number, sink, console, fetches>>

FnPenultimate(position) ==
    /\ pc = "fn_window"
    /\ LET exc == ReturnPenultimateRollingValueExc(data_lists, position)
       IN  result' = [fn |-> "ReturnPenultimateRollingValue", position |-> position,
                      exc |-> exc,
                      value |-> IF exc = "none"
                                THEN ReturnPenultimateRollingValue(data_lists, position)
                                ELSE 0]
    /\ pc' = "fn_done"
    /\ UNCHANGED <<outcome, logfile, config, areas, Rolling, limits, table, data_lines,
                   data_lists, area_number, sink, console, fetches>>

FnNext ==
    \/ FnWindow
    \/ \E position \in FnPositions : FnDifference(position)
    \/ \E position \in FnPositions : FnLast(position)
    \/ \E position \in FnPositions : FnPenultimate(position)

SpecFn == FnInit /\ [][FnNext]_vars

(***************************************************************************)
(* Properties of the windowing and rolling functions (under SpecFn)        *)
(***************************************************************************)
\* The three rows of the series a window of the given period is taken from, oldest
\* first: the rows at indices 2*period, period and 0 of the newest-first series
WindowRows == <<table[2 * Rolling + 1], table[Rolling + 1], table[1]>>

\* The count a field's text stands for, found among the counts of the series
CountOf(field) == CHOOSE v \in FnCounts : Digits(v) = field

IsCount(field) == \E v \in FnCounts : Digits(v) = field

\* All three samples of the window hold a count at the position
WindowNumeric(position) == \A i \in 1..3 : IsCount(WindowRows[i][position + 1])

DifferenceApplied == pc = "fn_done" /\ result.fn = "ReturnRollingDifference"

C2_WindowSamples ==
    (pc /= "fn" /\ Rolling > 0 /\ Len(table) >= 2 * Rolling + 1) =>
        /\ Len(data_lists) = 3
        /\ data_lists = WindowRows

\* A window of period 2 over five rows, with rows between the samples that differ
\* from them
C2_Witness ==
    /\ pc = "fn_window"
    /\ result.fn = "ReturnRollingSourceData"
    /\ Rolling = 2
    /\ Len(table) = 5
    /\ data_lists = <<table[5], table[3], table[1]>>
    /\ table[2][2] /= table[1][2]
    /\ table[2][2] /= table[3][2]
    /\ table[4][2] /= table[3][2]
    /\ table[5][2] /= table[1][2]

(***************************************************************************)
(* Properties of a run of MAIN (under Spec)                                *)
(***************************************************************************)
HasEntry(level, kind, area, metric) ==
    \E i \in 1..Len(sink) : sink[i] = Entry(level, kind, area, metric)

HasKind(kind, area, metric) ==
    \E i \in 1..Len(sink) :
        sink[i].kind = kind /\ sink[i].area = area /\ sink[i].metric = metric

Fetched(area, structure) ==
    \E i \in 1..Len(fetches) : fetches[i] = Call(area, structure)

Stopped == outcome \notin {"running", "completed"}

\* The steps that take a window of the series, and a run that ended in one of them
\* after its series was retrieved (for the deaths of an area the first line of the
\* series is read before the window is taken)
WindowingSteps == {"overview_fetch", "overview_tests", "area_fetch", "death_fetch"}

WindowingFailed ==
    /\ pc \in WindowingSteps
    /\ outcome \notin {"running", "exit"}
    /\ Len(data_lines) < 2 * Rolling + 1
    /\ pc = "death_fetch" => Len(data_lines) > 0

\* C3 as stated: windowing over a series with fewer than 2*period+1 entries always
\* fails with InsufficientDataError and never indexes the series out of bounds, in
\* the national pass, the area cases pass and the area deaths pass, also after
\* leading rows were pruned.
C3_InsufficientData ==
    WindowingFailed => outcome = "InsufficientDataError" /\ outcome /= "IndexError"

\* The national series had four rows for a period of 7, and the run ended with
\* IndexError in the step that takes the window
C3_ShortSeriesIndexError ==
    /\ pc = "overview_fetch"
    /\ outcome = "IndexError"
    /\ Len(table) = 4
    /\ Len(data_lines) = 4
    /\ Rolling = 7
    /\ Fetched(-1, "overview")

\* The R number step of the national series is over, and no area has been fetched yet
NationalExponentialDone == pc = "area_fetch" /\ Len(fetches) = 1

\* The R number step of the area before area_number is over, and the next area has
\* not been fetched yet
AreaExponentialDone ==
    pc = "area_fetch" /\ area_number >= 1 /\ Len(fetches) = area_number + 1

\* What C4 says decides the alert: increasing and |above - below| <= sensitivity
ClaimedExponential(lines, value, date) ==
    LET data    == ExponentialData(lines, value, date)
        derived == IsGrowthExponential(data.Exponentials, limits.ExponentialSensitivity)
    IN  /\ data.Increasing
        /\ Abs(derived.Above - derived.Below) <= limits.ExponentialSensitivity

\* C4 as stated: an exponential-growth alert is emitted for a series (national or
\* area) if and only if the series is increasing and |above - below| is at most
\* ExponentialSensitivity, above and below being the counts of IsGrowthExponential.
C4_ExponentialAlert ==
    /\ NationalExponentialDone =>
          (HasKind("exponential", -1, "cases")
              <=> ClaimedExponential(data_lines, overview_field_positions["New"],
                                     overview_field_positions["Date"]))
    /\ AreaExponentialDone =>
          (HasKind("exponential", area_number - 1, "cases")
              <=> ClaimedExponential(data_lines, area_field_positions["New"],
                                     area_field_positions["Date"]))

\* The national series is increasing, |above - below| exceeds the sensitivity, and
\* the R number alert was logged
C4_AlertBeyondSensitivity ==
    /\ NationalExponentialDone
    /\ HasEntry("WARNING", "exponential", -1, "cases")
    /\ LET data == ExponentialData(data_lines, overview_field_positions["New"],
                                   overview_field_positions["Date"])
           derived == IsGrowthExponential(data.Exponentials, limits.ExponentialSensitivity)
       IN  /\ data.Increasing
           /\ Abs(derived.Above - derived.Below) > limits.ExponentialSensitivity
           /\ ~derived.Exponential

\* The passes over the areas: the steps from the first fetch of an area on
AreaSteps == {"area_fetch", "area_cases", "area_exponential", "death_fetch", "death_alerts"}

CasesSteps == {"area_fetch", "area_cases", "area_exponential"}

\* The structure fetched in the pass a step belongs to
PassOf(step) == IF step \in CasesSteps THEN "area" ELSE "death"

\* The run ended while it was processing an area
FailedInArea == Stopped /\ pc \in AreaSteps /\ Len(fetches) >= 2

\* C5 as stated: a data-retrieval or parse failure while processing one area does
\* not abort the run: every remaining area of the configured list is still fetched
\* and processed, and the failure is logged without terminating the process.
C5_FailureIsolated ==
    (outcome /= "running" /\ Len(fetches) >= 2) =>
        /\ outcome = "completed"
        /\ \A a \in 0..(Len(areas) - 1) : Fetched(a, "area") /\ Fetched(a, "death")

\* C5 amended: a failure while processing one area ends the run at that area.  A
\* failed retrieve is logged with level ERROR, that entry is the last of the log, the
\* failed fetch is the last fetch and the process then exits; a failure to parse the
\* retrieved data ends the run with the exception.  In both cases no remaining area
\* is fetched in that pass, and no area's deaths are fetched when the pass over the
\* cases failed.
C5_FailureEndsRun ==
    /\ \A i \in 1..Len(sink) :
          sink[i].kind = "retrieve_failed" =>
              /\ sink[i].level = "ERROR"
              /\ i = Len(sink)
              /\ outcome = "exit"
              /\ fetches[Len(fetches)] = Call(sink[i].area, sink[i].metric)
    /\ FailedInArea =>
          /\ \A a \in (area_number + 1)..(Len(areas) - 1) : ~Fetched(a, PassOf(pc))
          /\ pc \in CasesSteps => \A a \in 0..(Len(areas) - 1) : ~Fetched(a, "death")
          /\ ~HasKind("completed", -1, "")

\* The retrieve of the first of two areas failed: the run is over and the second
\* area was never fetched
C5_Witness ==
    /\ outcome = "exit"
    /\ pc = "area_fetch"
    /\ area_number = 0
    /\ Len(areas) = 2
    /\ sink[Len(sink)] = Entry("ERROR", "retrieve_failed", 0, "area")
    /\ fetches = <<Call(-1, "overview"), Call(0, "area")>>

\* The parameters of the configuration file, and what C6 counts as an error of it
ConfigLine(i) == config.lines[i]

ConfigParameters == Split(Remove(ConfigLine(2), " "), ",")

ConfigNames == Split(ConfigLine(1), ",")

\* A number: digits with at most one point among them, and a digit at least
NumericParameter(text) ==
    /\ \E i \in 1..Len(text) : IsDigit(text[i])
    /\ \A i \in 1..Len(text) : IsDigit(text[i]) \/ text[i] = "."
    /\ \A i, j \in 1..Len(text) : (text[i] = "." /\ text[j] = ".") => i = j

ZeroText(text) == Len(text) > 0 /\ \A i \in 1..Len(text) : text[i] = "0"

\* The errors of the configuration other than the number of its lines
ConfigContentError ==
    /\ config.exists
    /\ Len(config.lines) >= 2
    /\ \/ Len(ConfigParameters) /= 12
       \/ \E i \in 1..Len(ConfigParameters) : ~NumericParameter(ConfigParameters[i])
       \/ \E i \in 1..Len(ConfigNames) : Len(Remove(ConfigNames[i], " ")) = 0
       \/ ZeroText(ConfigParameters[1])

NoFetchEver == fetches = <<>> /\ pc \in {"start", "configuration"}

\* C6 as stated: every configuration error (missing file, wrong line count,
\* parameter count other than 12, non-numeric parameter, zero-length area name,
\* rolling period of zero) terminates the run before any call to the data source.
C6_AnyConfigError ==
    (~config.exists \/ Len(config.lines) /= 2 \/ ConfigContentError) => fetches = <<>>

\* C6 amended: the same with "fewer than two lines" for "wrong line count": a file of
\* more than two lines is read as its first two lines.
C6_ConfigErrorBeforeFetch ==
    (~config.exists \/ Len(config.lines) < 2 \/ ConfigContentError) =>
        /\ NoFetchEver
        /\ pc = "configuration" => outcome \in {"running", "exit", "ValueError"}
        /\ ~HasKind("processing_overview", -1, "")

\* The parse of a parameter line of 11 values ended the run with an ERROR entry,
\* before any fetch
C6_Witness ==
    /\ config.exists
    /\ Len(config.lines) = 2
    /\ Len(ConfigParameters) = 11
    /\ pc = "configuration"
    /\ outcome = "exit"
    /\ sink[Len(sink)] = Entry("ERROR", "parameter_count", -1, "")
    /\ fetches = <<>>

\* The rolling totals of tests of the window the positive rates are computed on
LastTestTotal ==
    LastTests(data_lists, overview_field_positions["PillarOneTests"],
              overview_field_positions["PillarTwoTests"])

PenultimateTestTotal ==
    PenultimateTests(data_lists, overview_field_positions["PillarOneTests"],
                     overview_field_positions["PillarTwoTests"])

\* C7 as stated: whenever the rolling test total of the latest or penultimate window
\* is 0 the driver detects it before it calls ReturnRollingPositiveRates and skips
\* the positivity check; rolling_cases / rolling_tests is never executed with a
\* zero divisor.
C7_ZeroTestsGuarded ==
    (pc = "overview_positives" /\ (LastTestTotal = 0 \/ PenultimateTestTotal = 0)) =>
        outcome /= "ZeroDivisionError"

\* The window of the test series holds three equal totals and the step that
\* computes the positive rates ended the run with ZeroDivisionError
C7_ZeroDivision ==
    /\ pc = "overview_positives"
    /\ outcome = "ZeroDivisionError"
    /\ LastTestTotal = 0
    /\ Len(data_lists) = 3
    /\ Len(data_lines) >= 2 * Rolling + 1

\* The steps after which the alerts of a metric have been logged and the window
\* they were decided on is still in data_lists
NationalCasesDone == pc = "overview_deaths"

NationalDeathsDone == pc = "overview_tests"

AreaCasesDone == pc = "area_exponential"

\* The deaths of the area before area_number are done and the next area's have not
\* been fetched yet
AreaDeathsDone ==
    /\ pc \in {"death_fetch", "done"}
    /\ area_number >= 1
    /\ Len(fetches) = 1 + Len(areas) + area_number

\* The increase alert and the absolute alert of a metric were logged exactly when
\* the rolling difference and the last rolling value at the position exceed their
\* limits
Thresholds(area, metric, position, increaseLimit, absoluteLimit) ==
    /\ HasEntry("WARNING", "increase", area, metric)
          <=> ReturnRollingDifference(data_lists, position) > increaseLimit
    /\ HasEntry("WARNING", "absolute", area, metric)
          <=> ReturnLastRollingValue(data_lists, position) > absoluteLimit

\* C8: threshold rules are strict and independent: an increase alert is logged if
\* and only if the rolling delta is strictly greater than its increase limit, an
\* absolute alert if and only if the latest rolling value is strictly greater than
\* its absolute limit, neither decision depending on the other, for national cases,
\* national deaths, area cases and area deaths, each with its own pair of limits.
C8_Thresholds ==
    /\ NationalCasesDone =>
          Thresholds(-1, "cases", overview_field_positions["Cases"],
                     limits.RollingCasesIncreaseLimit, limits.RollingCasesLimit)
    /\ NationalDeathsDone =>
          Thresholds(-1, "deaths", overview_field_positions["Deaths"],
                     limits.RollingDeathsIncreaseLimit, limits.RollingDeathsLimit)
    /\ AreaCasesDone =>
          Thresholds(area_number, "cases", area_field_positions["Cases"],
                     limits.LTLARollingCasesIncreaseLimit, limits.LTLARollingCasesLimit)
    /\ AreaDeathsDone =>
          Thresholds(area_number - 1, "deaths", death_field_positions["Cases"],
                     limits.LTLARollingDeathsIncreaseLimit, limits.LTLARollingDeathsLimit)

\* National cases: the rolling delta exceeded its limit and the rolling value, above
\* the delta's limit, did not exceed its own: the increase alert alone was logged
C8_Witness ==
    /\ NationalCasesDone
    /\ ReturnRollingDifference(data_lists, overview_field_positions["Cases"]) = 8
    /\ ReturnLastRollingValue(data_lists, overview_field_positions["Cases"]) = 44
    /\ limits.RollingCasesIncreaseLimit = 2
    /\ limits.RollingCasesLimit = 50
    /\ HasEntry("WARNING", "increase", -1, "cases")
    /\ ~HasKind("absolute", -1, "cases")

\* C9 as stated: for every area and for cases and deaths alike, whenever the latest
\* rolling value is exactly 0 an INFO zero alert is recorded and no WARNING is
\* recorded for that value; no zero alert is ever recorded for the national series.
C9_ZeroAlert ==
    /\ AreaCasesDone =>
          (ReturnLastRollingValue(data_lists, area_field_positions["Cases"]) = 0 =>
              /\ HasEntry("INFO", "zero", area_number, "cases")
              /\ ~HasKind("absolute", area_number, "cases"))
    /\ AreaDeathsDone =>
          (ReturnLastRollingValue(data_lists, death_field_positions["Cases"]) = 0 =>
              /\ HasEntry("INFO", "zero", area_number - 1, "deaths")
              /\ ~HasKind("absolute", area_number - 1, "deaths"))
    /\ \A i \in 1..Len(sink) : sink[i].kind = "zero" => sink[i].area /= -1

\* The latest rolling number of deaths of an area was 0 and nothing was logged
\* about it
C9_NoZeroAlertForDeaths ==
    /\ AreaDeathsDone
    /\ area_number = 1
    /\ ReturnLastRollingValue(data_lists, death_field_positions["Cases"]) = 0
    /\ HasEntry("INFO", "total_deaths", 0, "deaths")
    /\ ~HasKind("zero", 0, "deaths")

\* C10 as stated: the daily-average message of a national absolute alert (cases or
\* deaths) is recorded at INFO severity, never at WARNING or ERROR, and only when
\* the corresponding absolute alert fired.
C10_DailyAverageInfo ==
    \A i \in 1..Len(sink) :
        sink[i].kind = "daily_average" =>
            /\ sink[i].level = "INFO"
            /\ sink[i].area = -1
            /\ i > 1
            /\ sink[i - 1] = Entry("WARNING", "absolute", -1, sink[i].metric)

\* The national absolute alert for deaths fired and its daily average was logged
\* with level WARNING
C10_DeathsAverageWarning ==
    /\ NationalDeathsDone
    /\ ReturnLastRollingValue(data_lists, overview_field_positions["Deaths"])
          > limits.RollingDeathsLimit
    /\ HasEntry("WARNING", "absolute", -1, "deaths")
    /\ HasEntry("WARNING", "daily_average", -1, "deaths")
    /\ ~HasEntry("INFO", "daily_average", -1, "deaths")

\* The field of a window sample (1: oldest A, 2: B, 3: newest C) at a position
SampleField(i, position) == WindowRows[i][position + 1]

\* A field of the data source: empty, or the text of a count
EmptyOrCount(field) == field = <<>> \/ IsCount(field)

MetricPosition(step) ==
    CASE step = "overview_cases"  -> overview_field_positions["Cases"]
      [] step = "overview_deaths" -> overview_field_positions["Deaths"]
      [] step = "area_cases"      -> area_field_positions["Cases"]
      [] step = "death_alerts"    -> death_field_positions["Cases"]

MetricSteps == {"overview_cases", "overview_deaths", "area_cases", "death_alerts"}

\* A sample of the window in data_lists has an empty field at the position
WindowMissing(position) ==
    /\ Len(data_lists) = 3
    /\ \E i \in 1..3 : data_lists[i][position + 1] = <<>>

\* C12 as stated: when a window sample has an empty numeric field at the metric
\* position the run does not raise, records no threshold alert (increase, absolute
\* or zero) for that metric, and continues.
C12_MissingData ==
    \A step \in MetricSteps :
        (pc = step /\ WindowMissing(MetricPosition(step))) => outcome = "running"

\* The window of an area's cases has an empty field and the step that decides the
\* alerts ended the run with ValueError
C12_MissingRaises ==
    /\ pc = "area_cases"
    /\ WindowMissing(area_field_positions["Cases"])
    /\ outcome = "ValueError"
    /\ ~HasKind("increase", area_number, "cases")
    /\ ~HasKind("absolute", area_number, "cases")
    /\ ~HasKind("zero", area_number, "cases")

(***************************************************************************)
(* ReturnRollingPositiveRates on windows of cases and test totals          *)
(* (SpecRates)                                                             *)
(***************************************************************************)
\* The cumulative counts of cases, pillar one tests and pillar two tests a sample
\* can hold
RateCases == {0, 10, 60}

RatePillarOne == {0, 100, 500}

RatePillarTwo == {0, 200, 800}

\* Three rows <<date, cases, pillar one tests, pillar two tests>>, newest first
RateTables ==
    {[r \in 1..3 |-> <<DateField(3 - r), Digits(c[r]), Digits(p[r]), Digits(q[r])>>] :
        c \in [1..3 -> RateCases], p \in [1..3 -> RatePillarOne],
        q \in [1..3 -> RatePillarTwo]}

RatesInit ==
    /\ pc = "rates"
    /\ outcome = "running"
    /\ logfile = "open"
    /\ config = [exists |-> FALSE, lines |-> <<>>]
    /\ areas = <<>>
    /\ Rolling = 1
    /\ limits = NoLimits
    /\ table \in RateTables
    /\ data_lines = RetreiveCOVIDData(Answer(table))
    /\ data_lists = <<>>
    /\ area_number = 0
    /\ sink = <<>>
    /\ console = <<>>
    /\ fetches = <<>>
    /\ result = NoResult

RatesWindow ==
    /\ pc = "rates"
    /\ data_lists' = ReturnRollingSourceData(data_lines, Rolling)
    /\ pc' = "rates_window"
    /\ UNCHANGED <<outcome, logfile, config, areas, Rolling, limits, table, data_lines,
                   area_number, sink, console, fetches, result>>

RatesApply ==
    /\ pc = "rates_window"
    /\ LET cases == overview_field_positions["Cases"]
           test1 == overview_field_positions["PillarOneTests"]
           test2 == overview_field_positions["PillarTwoTests"]
           exc   == ReturnRollingPositiveRatesExc(data_lists, cases, test1, test2)
       IN  result' = [fn |-> "ReturnRollingPositiveRates", position |-> cases, exc |-> exc,
                      value |-> IF exc = "none"
                                THEN ReturnRollingPositiveRates(data_lists, cases, test1, test2)
                                ELSE <<>>]
    /\ pc' = "rates_done"
    /\ UNCHANGED <<outcome, logfile, config, areas, Rolling, limits, table, data_lines,
                   data_lists, area_number, sink, console, fetches>>

RatesNext == RatesWindow \/ RatesApply

SpecRates == RatesInit /\ [][RatesNext]_vars

\* The count in column k (2: cases, 3: pillar one, 4: pillar two) of the sample i
\* of the table (1: oldest A, 2: B, 3: newest C), found among the counts a sample
\* can hold
RateCount(i, k) ==
    CHOOSE v \in RateCases \cup RatePillarOne \cup RatePillarTwo :
        Digits(v) = table[4 - i][k]

\* The rolling cases and the rolling total of tests of the latest window (B, C) and
\* of the penultimate window (A, B)
LatestCases == RateCount(3, 2) - RateCount(2, 2)

LatestTests == (RateCount(3, 3) - RateCount(2, 3)) + (RateCount(3, 4) - RateCount(2, 4))

PenultimateCases == RateCount(2, 2) - RateCount(1, 2)

PenultimateTestsTotal ==
    (RateCount(2, 3) - RateCount(1, 3)) + (RateCount(2, 4) - RateCount(1, 4))

\* The quotient rate is n / d
IsQuotient(rate, n, d) == rate[2] /= 0 /\ rate[1] * d = n * rate[2]

GrowthAverages == {0, 3, 9, 27}

GrowthSensitivities == {0, 1, 3}

\* Seven [sample_date, average] pairs as Return7DayRollingAverageData returns them
GrowthLists ==
    {[i \in 1..7 |-> <<DateField(7 - i), Frac(a[i], 1)>>] : a \in [1..7 -> GrowthAverages]}

GrowthInit ==
    /\ pc = "growth"
    /\ outcome = "running"
    /\ logfile = "open"
    /\ config = [exists |-> FALSE, lines |-> <<>>]
    /\ areas = <<>>
    /\ Rolling = 7
    /\ \E sensitivity \in GrowthSensitivities :
           limits = [NoLimits EXCEPT !.ExponentialSensitivity = sensitivity]
    /\ table = <<>>
    /\ data_lines = <<>>
    /\ data_lists \in GrowthLists
    /\ area_number = 0
    /\ sink = <<>>
    /\ console = <<>>
    /\ fetches = <<>>
    /\ result = NoResult

\* Line 658: exponential_data = ReturnExponentialData(rolling_lists,7,1)
GrowthLogs ==
    /\ pc = "growth"
    /\ result' = [fn |-> "ReturnExponentialData", position |-> 1, exc |-> "none",
                  value |-> ReturnExponentialData(data_lists, 7, 1)]
    /\ pc' = "growth_logs"
    /\ UNCHANGED <<outcome, logfile, config, areas, Rolling, limits, table, data_lines,
                   data_lists, area_number, sink, console, fetches>>

\* Line 661: IsGrowthExponential(exponential_data['Exponentials'],ExponentialSensitivity),
\* applied here whatever Increasing is
GrowthApply ==
    /\ pc = "growth_logs"
    /\ result' = [fn |-> "IsGrowthExponential", position |-> 1, exc |-> "none",
                  value |-> IsGrowthExponential(result.value.Exponentials,
                                                limits.ExponentialSensitivity)]
    /\ pc' = "growth_done"
    /\ UNCHANGED <<outcome, logfile, config, areas, Rolling, limits, table, data_lines,
                   data_lists, area_number, sink, console, fetches>>

GrowthNext == GrowthLogs \/ GrowthApply

SpecGrowth == GrowthInit /\ [][GrowthNext]_vars

\* The log sequence the detector was given, and its increments
GrowthLogsGiven == ReturnExponentialData(data_lists, 7, 1).Exponentials

GrowthIncrements ==
    [i \in 1..(IF Len(GrowthLogsGiven) = 0 THEN 0 ELSE Len(GrowthLogsGiven) - 1) |->
        GrowthLogsGiven[i + 1] - GrowthLogsGiven[i]]

GrowthApplied == pc = "growth_done" /\ result.fn = "IsGrowthExponential"

\* C14: IsGrowthExponential never sets Exponential when the log sequence yields
\* fewer than 2 increments (a log sequence of length 0, 1 or 2), whatever the
\* sensitivity >= 0
C14_FewIncrements ==
    (GrowthApplied /\ Len(GrowthIncrements) < 2) => ~result.value.Exponential

\* A log sequence of two values, hence one increment, classified exponential at
\* sensitivity 0: the increment equals its own mean, Above = Below = 0
C14_ExponentialOnFew ==
    /\ GrowthApplied
    /\ Len(GrowthLogsGiven) = 2
    /\ limits.ExponentialSensitivity = 0
    /\ result.value = [Above |-> 0, Below |-> 0, Exponential |-> TRUE]


\* How many increments lie strictly above, and strictly below, the mean the
\* detector computes of them
GrowthAbove ==
    Cardinality({i \in DOMAIN GrowthIncrements :
        GrowthIncrements[i] > Average(GrowthIncrements)})

GrowthBelow ==
    Cardinality({i \in DOMAIN GrowthIncrements :
        GrowthIncrements[i] < Average(GrowthIncrements)})

LargerSensitivities == 0..7

WindowedSteps ==
    {"overview_cases", "overview_deaths", "overview_positives", "area_cases", "death_alerts"}

MetricsUnderTest(step) ==
    IF step = "overview_positives"
    THEN {overview_field_positions["PillarOneTests"], overview_field_positions["PillarTwoTests"]}
    ELSE {MetricPosition(step)}

NewestField(position) == At(Split(data_lines[1], ","), position)

\* C16: before each windowing the leading rows without a value for the metric
\* under test are discarded, so the row at index 0 the window is taken from has a
\* value for that metric: national cases, deaths and test pillars, sub-region
\* cases and deaths
C16_NewestRowHasMetric ==
    \A step \in WindowedSteps :
        (pc = step /\ outcome = "running" /\ Len(data_lines) > 0) =>
            \A position \in MetricsUnderTest(step) : NewestField(position) /= <<>>

\* The window of a sub-region's cases taken from a series whose newest row has no
\* cases
C16_NewestRowEmpty ==
    /\ pc = "area_cases" /\ outcome = "running"
    /\ Len(data_lines) > 0
    /\ NewestField(area_field_positions["Cases"]) = <<>>
    /\ Len(data_lists) = 3
    /\ data_lists[3][area_field_positions["Cases"] + 1] = <<>>


(***************************************************************************)
(* utils.Logerror on its own: successive calls with any level              *)
(***************************************************************************)
MaxCalls == 4

LogLevels == {"INFO", "WARNING", "ERROR", "LOG"}

LogInit ==
    /\ pc = "logging"
    /\ outcome = "running"
    /\ logfile \in {"open", "failed"}
    /\ config = [exists |-> FALSE, lines |-> <<>>]
    /\ areas = <<>>
    /\ Rolling = 0
    /\ limits = NoLimits
    /\ table = <<>>
    /\ data_lines = <<>>
    /\ data_lists = <<>>
    /\ area_number = 0
    /\ sink = <<>>
    /\ console = <<>>
    /\ fetches = <<>>
    /\ result = NoResult

\* One call of Logerror; result keeps the message of the call
LogCall(level) ==
    /\ pc = "logging" /\ outcome = "running"
    /\ Len(sink) < MaxCalls
    /\ LET entry == Entry(level, "message", -1, "")
           log   == Logerror(Output, entry)
       IN  /\ sink' = log.sink
           /\ console' = log.console
           /\ outcome' = IF log.exit THEN "exit" ELSE outcome
           /\ result' = [fn |-> "Logerror", position |-> 0, exc |-> "none", value |-> entry]
    /\ UNCHANGED <<pc, logfile, config, areas, Rolling, limits, table, data_lines,
                   data_lists, area_number, fetches>>

LogNext == \E level \in LogLevels : LogCall(level)

SpecLog == LogInit /\ [][LogNext]_vars

Last(s) == s[Len(s)]

Logged == result.fn = "Logerror"

\* The last call recorded its message; it echoed it to the console
Recorded == Len(sink) > 0 /\ Last(sink) = result.value

Echoed == Len(console) > 0 /\ Last(console) = result.value

\* C17 as stated: Logerror terminates the process if and only if the severity is
\* ERROR, and only after the message has been recorded; a call with severity
\* WARNING or INFO never terminates the process and is echoed to the console
C17_ExitIffError ==
    Logged =>
        /\ outcome = "exit" <=> result.value.level = "ERROR"
        /\ outcome = "exit" => Recorded
        /\ result.value.level \in {"WARNING", "INFO"} => Echoed

\* C17, amended: that holds of a call whose message can be written to the log; a
\* call whose message cannot be written prints 'Unable to log', records nothing
\* and terminates the process whatever the severity
C17_ExitIffErrorOrUnwritable ==
    Logged =>
        IF logfile = "open"
        THEN /\ outcome = "exit" <=> result.value.level = "ERROR"
             /\ Recorded
             /\ result.value.level \in {"WARNING", "INFO"} => Echoed
        ELSE /\ outcome = "exit"
             /\ sink = <<>>
             /\ console = <<Entry("", "unable_to_log", -1, "")>>

\* A call with severity ERROR after a call with severity WARNING: both recorded
\* and echoed, the process terminated
C17_Witness ==
    /\ Logged /\ logfile = "open"
    /\ outcome = "exit"
    /\ result.value.level = "ERROR"
    /\ sink = <<Entry("WARNING", "message", -1, ""), Entry("ERROR", "message", -1, "")>>
    /\ console = sink


\* A configuration of two lines whose first line is one area name of some length
\* and whose parameter line is valid
SingleRegionConfig ==
    /\ config.exists
    /\ Len(config.lines) = 2
    /\ Len(ConfigNames) = 1
    /\ Len(Remove(ConfigNames[1], " ")) > 0
    /\ ~ConfigContentError

\* C18: a configuration whose region line holds exactly one non-empty region name,
\* with a valid line of 12 parameters, is accepted: the run does not stop in the
\* parse of the configuration
C18_SingleRegionAccepted ==
    (SingleRegionConfig /\ logfile = "open") => ~(pc = "configuration" /\ Stopped)

\* The configuration 'A' was rejected as holding fewer than MinAreas area names,
\* before any fetch
C18_SingleRegionRejected ==
    /\ SingleRegionConfig /\ logfile = "open"
    /\ ConfigNames = <<<<"A">>>>
    /\ MinAreas = 1
    /\ pc = "configuration"
    /\ outcome = "exit"
    /\ Last(sink) = Entry("ERROR", "too_few_areas", -1, "")
    /\ fetches = <<>>


\* The counts of the three samples of the window, oldest first
WindowCounts == [i \in 1..3 |-> DigitsValue(data_lists[i][2])]

\* What windowing with period 2 and the rolling functions at the count's position
\* yield: the samples (A, B, C), the latest rolling value and the rolling delta
ScenarioYields(samples, last, delta) ==
    /\ pc \in {"fn_window", "fn_done"} => WindowCounts = samples
    /\ (pc = "fn_done" /\ result.fn = "ReturnLastRollingValue" /\ result.position = 1) =>
           (result.exc = "none" /\ result.value = last)
    /\ (pc = "fn_done" /\ result.fn = "ReturnRollingDifference" /\ result.position = 1) =>
           (result.exc = "none" /\ result.value = delta)

\* C19 as stated: for the newest-first cumulative series [100,120,145,175,210] and
\* period 2 the window samples are (A,B,C) = (100,145,210), the latest rolling
\* value is 65 and the rolling delta is 20
C19_ScenarioAsListed ==
    (table = SeriesTable(<<100, 120, 145, 175, 210>>) /\ Rolling = 2) =>
        ScenarioYields(<<100, 145, 210>>, 65, 20)

\* C19, amended: these samples and values are those of the series whose newest
\* count is 210, that is [210,175,145,120,100] newest first
C19_Scenario ==
    (table = SeriesTable(<<210, 175, 145, 120, 100>>) /\ Rolling = 2) =>
        ScenarioYields(<<100, 145, 210>>, 65, 20)

\* The latest rolling value of that series, 210 - 145
C19_Witness ==
    /\ table = SeriesTable(<<210, 175, 145, 120, 100>>) /\ Rolling = 2
    /\ pc = "fn_done"
    /\ result = [fn |-> "ReturnLastRollingValue", position |-> 1, exc |-> "none",
                 value |-> 65]
    /\ WindowCounts = <<100, 145, 210>>


(***************************************************************************)
(* The rolling averages on their own: lines 652-654 applied to a series of *)
(* daily counts, with every configured rolling period                      *)
(***************************************************************************)
MaxDays == 15

AveragePeriods == {1, 3, 7}

\* Series of 0..MaxDays rows <<date, cumulative cases, new cases>>, newest first
AverageTables ==
    {AreaTable([n |-> n, cases |-> "lin", new |-> w, hole |-> "none", holeAt |-> 0]) :
        n \in 0..MaxDays, w \in {"const", "up", "down", "spike"}}

AverageInit ==
    /\ pc = "average"
    /\ outcome = "running"
    /\ logfile = "open"
    /\ config = [exists |-> FALSE, lines |-> <<>>]
    /\ areas = <<>>
    /\ Rolling \in AveragePeriods
    /\ limits = NoLimits
    /\ table \in AverageTables
    /\ data_lines = RetreiveCOVIDData(Answer(table))
    /\ data_lists = <<>>
    /\ area_number = 0
    /\ sink = <<>>
    /\ console = <<>>
    /\ fetches = <<>>
    /\ result = NoResult

\* Lines 652-653: rolling_lines = data_lines[0:sample_size]
AverageSample ==
    /\ pc = "average"
    /\ data_lines' = RollingLines(data_lines)
    /\ pc' = "average_lines"
    /\ UNCHANGED <<outcome, logfile, config, areas, Rolling, limits, table, data_lists,
                   area_number, sink, console, fetches, result>>

\* Line 654: rolling_lists = Return7DayRollingAverageData(rolling_lines, New, Date)
AverageApply ==
    /\ pc = "average_lines"
    /\ LET value == area_field_positions["New"]
           date  == area_field_positions["Date"]
           exc   == Return7DayRollingAverageDataExc(data_lines, value, date)
       IN  result' = [fn |-> "Return7DayRollingAverageData", position |-> value,
                      exc |-> exc,
                      value |-> IF exc = "none"
                                THEN Return7DayRollingAverageData(data_lines, value, date)
                                ELSE <<>>]
    /\ pc' = "average_done"
    /\ UNCHANGED <<outcome, logfile, config, areas, Rolling, limits, table, data_lines,
                   data_lists, area_number, sink, console, fetches>>

AverageNext == AverageSample \/ AverageApply

SpecAverage == AverageInit /\ [][AverageNext]_vars

AverageApplied == pc = "average_done" /\ result.fn = "Return7DayRollingAverageData"

\* The daily count of the row at index i of the series (0 is the newest row)
DailyCount(i) == DigitsValue(table[i + 1][area_field_positions["New"] + 1])

\* The centred averages of an odd period over the most recent 2*period - 1 rows of
\* the series: for every centre row with period/2 rows on either side, oldest
\* centre first, the date of the centre row and the mean of the period daily counts
\* around it
CentredAverages(period) ==
    LET rows    == IF Len(table) < 2 * period - 1 THEN Len(table) ELSE 2 * period - 1
        half    == period \div 2
        centres == RangeDown(rows - 1 - half, half - 1)
    IN  [k \in 1..Len(centres) |->
            <<table[centres[k] + 1][area_field_positions["Date"] + 1],
              Frac(SumInts([j \in 1..period |-> DailyCount(centres[k] - half + j - 1)]),
                   period)>>]

\* C20 as stated: the rolling averages are the centred period-day means over the
\* most recent 2*period - 1 daily rows, with period the configured rolling period,
\* for every configured period > 0
C20_ConfiguredPeriod ==
    AverageApplied => (result.exc = "none" /\ result.value = CentredAverages(Rolling))

\* C20, amended: the period of the averages is 7 whatever the configured rolling
\* period: centred 7-day means over the most recent 13 daily rows
C20_SevenDays ==
    AverageApplied => (result.exc = "none" /\ result.value = CentredAverages(7))

\* Seven averages of a growing series of 15 days with the configured period 3, the
\* oldest being the mean of the counts 3..9 and the newest that of 9..15
C20_Witness ==
    /\ AverageApplied
    /\ Rolling = 3
    /\ Len(table) = 15
    /\ Len(result.value) = 7
    /\ result.value[1] = <<DateField(5), <<42, 7>>>>
    /\ result.value[7] = <<DateField(11), <<84, 7>>>>


\* The steps of the national (overview) processing
OverviewSteps ==
    {"overview_fetch", "overview_cases", "overview_deaths", "overview_tests",
     "overview_positives", "overview_exponential"}

\* A sub-region was fetched, or an entry about a sub-region was logged
AnyAreaFetched == \E i \in 1..Len(fetches) : fetches[i].area >= 0

AnyAreaLogged == \E i \in 1..Len(sink) : sink[i].area >= 0

NationalFirst ==
    /\ AnyAreaFetched =>
          /\ fetches[1] = Call(-1, "overview")
          /\ \A i \in 2..Len(fetches) : fetches[i].area >= 0
          /\ pc \notin OverviewSteps \cup {"start", "configuration"}
          /\ HasEntry("INFO", "processing_ltla", -1, "")
    /\ (Stopped /\ pc \in OverviewSteps) => (~AnyAreaFetched /\ ~AnyAreaLogged)
    /\ AnyAreaLogged => AnyAreaFetched

\* C21: the order of execution is fixed: the national processing completes before
\* the first fetch of a sub-region, and when it ends in a fatal error (a failed
\* retrieve, a failed windowing or an arithmetic failure) the run is over: nothing
\* runs after it, no sub-region is fetched or alerted on
C21_NationalFirst == []NationalFirst /\ [][outcome = "running"]_vars

\* The national processing ended in a division by zero after its one fetch
C21_Witness ==
    /\ pc = "overview_positives"
    /\ outcome = "ZeroDivisionError"
    /\ fetches = <<Call(-1, "overview")>>
    /\ ~AnyAreaLogged


\* The indexes the loop of Return7DayRollingAverageData reads in n lines: every
\* index of the loop (for the date), and the points it sums around an index > 2
IndexesRead(n) ==
    LET indexes == RangeDown(n - 4, 0)
    IN  {indexes[k] : k \in 1..Len(indexes)}
        \cup UNION {{Points(indexes[k])[p] : p \in 1..7} :
                       k \in {j \in 1..Len(indexes) : indexes[j] > 2}}

\* The fixed reads of the driver on the averages: rolling_lists[3] (line 657) and
\* the seven rows ReturnExponentialData reads (line 658)
DriverReadsInRange(rolling_lists) ==
    /\ 3 < Len(rolling_lists)
    /\ ReturnExponentialDataExc(rolling_lists, 7, 1) = "none"

\* C22: given n lines of integer values Return7DayRollingAverageData returns exactly
\* max(0, n - 6) pairs [date, average], from the oldest centre row (index n - 4) to
\* the newest (index 3), each average being the mean of the 7 rows at the indexes
\* centre - 3 .. centre + 3; it reads no index outside 0 .. n - 1; so the fixed reads
\* of the driver are in range only when the fetched series has at least 13 rows
C22_SevenDayAverages ==
    AverageApplied =>
        LET n == Len(data_lines)
        IN  /\ result.exc = "none"
            /\ Len(result.value) = IF n - 6 > 0 THEN n - 6 ELSE 0
            /\ \A k \in 1..Len(result.value) :
                   LET centre == n - 3 - k
                   IN  /\ centre >= 3
                       /\ k = Len(result.value) => centre = 3
                       /\ result.value[k] =
                              <<table[centre + 1][area_field_positions["Date"] + 1],
                                Frac(SumInts([j \in 1..7 |-> DailyCount(centre - 4 + j)]),
                                     7)>>
            /\ IndexesRead(n) \subseteq 0..(n - 1)
            /\ DriverReadsInRange(result.value) <=> Len(table) >= 13

\* Ten lines give the four averages of the centres 6, 5, 4 and 3: rolling_lists[3]
\* is in range, the seven reads of ReturnExponentialData are not
C22_Witness ==
    /\ AverageApplied
    /\ Len(data_lines) = 10
    /\ Len(result.value) = 4
    /\ result.value[1][1] = table[7][1]
    /\ result.value[4][1] = table[4][1]
    /\ IndexesRead(10) = 0..9
    /\ ~DriverReadsInRange(result.value)


\* C23: for every log sequence and sensitivity the result of IsGrowthExponential has
\* Above + Below <= the number of increments, and Above > 0 exactly when Below > 0;
\* hence |Above - Below| <= max(0, number of increments - 2)
C23_AboveBelow ==
    GrowthApplied =>
        LET n     == Len(GrowthIncrements)
            above == result.value.Above
            below == result.value.Below
        IN  /\ above + below <= n
            /\ above > 0 <=> below > 0
            /\ Abs(above - below) <= (IF n - 2 > 0 THEN n - 2 ELSE 0)

\* The logs of the averages 3, 9 and 27, a series that triples: of the two
\* increments one is above the average computed for them and none is below, and
\* with sensitivity 0 the series is not classified exponential
C23_AboveWithoutBelow ==
    /\ GrowthApplied
    /\ limits.ExponentialSensitivity = 0
    /\ Len(GrowthIncrements) = 2
    /\ GrowthLogsGiven = <<Log(<<3, 1>>), Log(<<9, 1>>), Log(<<27, 1>>)>>
    /\ result.value = [Above |-> 1, Below |-> 0, Exponential |-> FALSE]

=============================================================================
